---- MODULE Spec2Model ----
(***************************************************************************)
(* A model of the DynamoDB-backed stores of more-than-just-strangers:      *)
(*   - the MessageQueue table and its two functions                        *)
(*     (server/database/message_queue.py),                                 *)
(*   - the Connections table (server/database/connections.py, config.py),  *)
(*   - the UserMetadata table, its TTL setting and the Cognito directory   *)
(*     sync (server/database/user_metadata.py,                             *)
(*     server/logic/user_metadata_logic.py).                               *)
(* DynamoDB and Cognito are modelled by their documented behaviour:        *)
(* put_item replaces the item under the same primary key, Scan and         *)
(* ListUsers answer one page per call, TTL deletes an expired item.        *)
(***************************************************************************)
EXTENDS Integers, Sequences, FiniteSets, TLC

(* ------------------------------ bounds -------------------------------- *)

\* how many uuids the model lets uuid4 issue
MaxMsgs == 3

\* how many items one Scan page holds (DynamoDB: 1 MB of items, before the filter)
ScanPageItems == 2

\* the clock stops at MaxTime; it advances TickSeconds at a time
MaxTime == 5400

TickSeconds == 1800

\* how many connectionIds the transport hands out
MaxConns == 4

\* how many users the Cognito pool holds at most
MaxDirUsers == 3

\* how many users one list_users page holds (Cognito: 60)
ListUsersPage == 2

(* ----------------------------- constants ------------------------------ *)

Procs == {"p1", "p2"}

Senders == {"A"}

Receivers == {"B", "C"}

Chats == {"c1"}

Bodies == {"hi"}

\* the values uuid4 can give, in the order a Scan of the table meets them
MessageIds == 1..MaxMsgs

VARIABLES
  queueTable,   \* the MessageQueue table: messageId -> item
  issued,       \* the uuids uuid4 has produced so far
  call,         \* per caller: where its add_message_to_queue call stands
  accepted,     \* messageIds whose put_item answered (the sender saw a response)
  before,       \* <<m1, m2>>: the enqueue of m1 returned before that of m2 began
  lastFetch,    \* the outcome of the latest fetch_undelivered_messages call
  connTable,    \* the Connections table: ConnectionID -> item
  latest,       \* per user: the connectionId of its latest connect (0: none)
  lastLookup,   \* the latest lookup: the user asked for and the connectionIds found
  directory,    \* the Cognito user pool, in the order list_users walks it
  userTables,   \* the presence tables of the account: TableName -> table
  sync,         \* where the directory sync script stands
  putTime,      \* sub -> when the sync stored the user's record
  now           \* the clock, in seconds

queueVars == <<queueTable, issued, call, accepted, before, lastFetch>>

connVars == <<connTable, latest, lastLookup>>

syncVars == <<directory, userTables, sync, putTime, now>>

vars == <<queueVars, connVars, syncVars>>

(* --------------------------- DynamoDB tables -------------------------- *)

\* put_item: creates the item, or replaces the item with the same primary key
put_item(table, key, Item) ==
  [k \in DOMAIN table \cup {key} |-> IF k = key THEN Item ELSE table[k]]

RECURSIVE Ascending(_)
\* the keys of a table in the order Scan walks them
Ascending(S) ==
  IF S = {} THEN <<>>
  ELSE LET lo == CHOOSE x \in S : \A y \in S : x <= y
       IN <<lo>> \o Ascending(S \ {lo})

\* one Scan call reads one page of the table, whatever the filter keeps of it
ScanPage(table) ==
  LET keys == Ascending(DOMAIN table)
  IN SubSeq(keys, 1, IF Len(keys) < ScanPageItems THEN Len(keys) ELSE ScanPageItems)

(* ---------------------------- MessageQueue ---------------------------- *)

\* uuid4 giving an id it has given before
uuid4_any == MessageIds

\* str(uuid.uuid4()): an id no earlier call was given
uuid4 == MessageIds \ issued

\* the Item add_message_to_queue builds (neither function reads timestamp back)
NewItem(id, chatId, senderId, receiverId, message, utcnow) ==
  [messageId |-> id, chatId |-> chatId, senderId |-> senderId,
   receiverId |-> receiverId, message |-> message, timestamp |-> utcnow,
   delivered |-> FALSE]

\* the Item of a caller that has built none yet (0 is no messageId)
NoItem == NewItem(0, "", "", "", "", 0)

Idle == [pc |-> "idle", item |-> NoItem, storeFailed |-> FALSE,
         outcome |-> "none", type |-> "none"]

\* the filter without its delivered condition
FilterExpression_receiver_only(item, receiverId) ==
  item.receiverId = receiverId

\* Attr('receiverId').eq(receiverId) & Attr('delivered').eq(False)
FilterExpression(item, receiverId) ==
  item.receiverId = receiverId /\ item.delivered = FALSE

\* response['Items'] of the one scan call fetch_undelivered_messages makes
fetch_undelivered_messages(receiverId) ==
  LET page == ScanPage(queueTable)
  IN SelectSeq([i \in 1..Len(page) |-> queueTable[page[i]]],
               LAMBDA item : FilterExpression(item, receiverId))

\* lastFetch before any call; receiverId is kept only with a list that was returned
NoFetch == [receiverId |-> "", storeFailed |-> FALSE, outcome |-> "none",
            type |-> "none"]

QueueInit ==
  /\ queueTable = << >>
  /\ issued = {}
  /\ call = [p \in Procs |-> Idle]
  /\ accepted = {}
  /\ before = {}
  /\ lastFetch = NoFetch

\* add_message_to_queue is entered: the Item is built, put_item is about to be sent
EnqueueCall(p, chatId, senderId, receiverId, message) ==
  /\ call[p].pc \in {"idle", "returned"}
  /\ \E id \in uuid4 :
       /\ issued' = issued \cup {id}
       /\ call' = [call EXCEPT ![p] =
                     [Idle EXCEPT !.pc = "put_item",
                                  !.item = NewItem(id, chatId, senderId, receiverId, message, now)]]
       /\ before' = before \cup {<<m, id>> : m \in accepted}
  /\ UNCHANGED <<queueTable, accepted, lastFetch, connVars, syncVars>>

\* put_item answers; add_message_to_queue returns the response
PutItemOk(p) ==
  /\ call[p].pc = "put_item"
  /\ queueTable' = put_item(queueTable, call[p].item.messageId, call[p].item)
  /\ accepted' = accepted \cup {call[p].item.messageId}
  /\ call' = [call EXCEPT ![p].pc = "returned", ![p].outcome = "return",
                          ![p].type = "PutItemOutput"]
  /\ UNCHANGED <<issued, before, lastFetch, connVars, syncVars>>

\* put_item raises ClientError: the message is printed and None is returned
PutItemClientError(p) ==
  /\ call[p].pc = "put_item"
  /\ call' = [call EXCEPT ![p] = [Idle EXCEPT !.pc = "returned", !.storeFailed = TRUE,
                                               !.outcome = "return", !.type = "NoneType"]]
  /\ UNCHANGED <<queueTable, issued, accepted, before, lastFetch, connVars, syncVars>>

\* put_item raises something else (no endpoint, a timeout): nothing catches it
PutItemOtherError(p) ==
  /\ call[p].pc = "put_item"
  /\ call' = [call EXCEPT ![p] = [Idle EXCEPT !.pc = "returned", !.storeFailed = TRUE,
                                               !.outcome = "raise", !.type = "BotoCoreError"]]
  /\ UNCHANGED <<queueTable, issued, accepted, before, lastFetch, connVars, syncVars>>

\* fetch_undelivered_messages(receiverId), the scan answering: the list the
\* caller gets is fetch_undelivered_messages(receiverId) of the table as it is
Fetch(receiverId) ==
  /\ lastFetch' = [receiverId |-> receiverId, storeFailed |-> FALSE,
                   outcome |-> "return", type |-> "list"]
  /\ UNCHANGED <<queueTable, issued, call, accepted, before, connVars, syncVars>>

\* the scan raises ClientError: the message is printed and None is returned
FetchClientError(receiverId) ==
  /\ receiverId \in Receivers
  /\ lastFetch' = [NoFetch EXCEPT !.storeFailed = TRUE, !.outcome = "return",
                                  !.type = "NoneType"]
  /\ UNCHANGED <<queueTable, issued, call, accepted, before, connVars, syncVars>>

\* the scan raises something else: nothing catches it
FetchOtherError(receiverId) ==
  /\ receiverId \in Receivers
  /\ lastFetch' = [NoFetch EXCEPT !.storeFailed = TRUE, !.outcome = "raise",
                                  !.type = "BotoCoreError"]
  /\ UNCHANGED <<queueTable, issued, call, accepted, before, connVars, syncVars>>

\* markDelivered(messageId): sets delivered on the stored message
MarkDelivered(id) ==
  /\ id \in DOMAIN queueTable
  /\ queueTable' = [queueTable EXCEPT ![id].delivered = TRUE]
  /\ UNCHANGED <<issued, call, accepted, before, lastFetch, connVars, syncVars>>

QueueNext ==
  \/ \E p \in Procs, c \in Chats, s \in Senders, r \in Receivers, b \in Bodies :
       EnqueueCall(p, c, s, r, b)
  \/ \E p \in Procs : PutItemOk(p)
  \/ \E p \in Procs : PutItemClientError(p)
  \/ \E p \in Procs : PutItemOtherError(p)
  \/ \E r \in Receivers : Fetch(r)
  \/ \E r \in Receivers : FetchClientError(r)
  \/ \E r \in Receivers : FetchOtherError(r)
  \/ \E id \in MessageIds : MarkDelivered(id)

(* ----------------------------- Connections ---------------------------- *)

ConnUsers == {"A", "B"}

ConnectionIds == 1..MaxConns

\* KeySchema of the Connections table: the attribute that is its HASH key
ConnectionsKey == "ConnectionID"

\* the item of one live connection
ConnectionItem(userId, connectionId) ==
  [ConnectionID |-> connectionId, userId |-> userId]

\* lookup(userId): the connectionIds the table holds for the user
lookup(userId) ==
  {c \in DOMAIN connTable : connTable[c].userId = userId}

ConnInit ==
  /\ connTable = << >>
  /\ latest = [u \in ConnUsers |-> 0]
  /\ lastLookup = [userId |-> "", found |-> {}]

\* connect(userId, connectionId): one put under the table's key; the transport
\* hands out a connectionId it has not used before
Connect(userId, connectionId) ==
  /\ connectionId \in ConnectionIds
  /\ \A u \in ConnUsers : latest[u] < connectionId
  /\ connectionId \notin DOMAIN connTable
  /\ connTable' = put_item(connTable, ConnectionItem(userId, connectionId)[ConnectionsKey],
                           ConnectionItem(userId, connectionId))
  /\ latest' = [latest EXCEPT ![userId] = connectionId]
  /\ UNCHANGED <<lastLookup, queueVars, syncVars>>

\* disconnect(connectionId), for a connectionId the transport has handed out:
\* deletes the item under that key, if there is one
Disconnect(connectionId) ==
  /\ \E u \in ConnUsers : connectionId <= latest[u]
  /\ connTable' = [c \in DOMAIN connTable \ {connectionId} |-> connTable[c]]
  /\ UNCHANGED <<latest, lastLookup, queueVars, syncVars>>

Lookup(userId) ==
  /\ lastLookup' = [userId |-> userId, found |-> lookup(userId)]
  /\ UNCHANGED <<connTable, latest, queueVars, syncVars>>

ConnNext ==
  \/ \E u \in ConnUsers, c \in ConnectionIds : Connect(u, c)
  \/ \E c \in ConnectionIds : Disconnect(c)
  \/ \E u \in ConnUsers : Lookup(u)

(* ------------------------ directory sync, presence -------------------- *)

\* TABLE_NAME of user_metadata.py: the table the repository provisions
TABLE_NAME == "UserMetadata"

\* DYNAMODB_TABLE of user_metadata_logic.py: the table the sync writes
DYNAMODB_TABLE == "UserMetaData"

\* "TTL": {"N": str(int(time.time()) + 3600)}
TTL_SECONDS == 3600

\* an attribute a Cognito user does not have
Absent == "<absent>"

DirectoryUsers ==
  [sub : 1..MaxDirUsers, name : {"Ann", Absent}, email : {"ann@x.org", Absent}]

\* the user pools the model starts from: up to MaxDirUsers users, sub i at place i
Directories ==
  UNION {{d \in [1..n -> DirectoryUsers] : \A i \in 1..n : d[i].sub = i}
         : n \in 0..MaxDirUsers}

\* next(... if attr["Name"] == key, default)
AttrOrDefault(value, default) == IF value = Absent THEN default ELSE value

\* get_all_users: one list_users call, so one page of the pool
get_all_users ==
  LET n == IF Len(directory) < ListUsersPage THEN Len(directory) ELSE ListUsersPage
  IN [i \in 1..n |->
        [sub |-> directory[i].sub,
         name |-> AttrOrDefault(directory[i].name, "Unknown"),
         email |-> AttrOrDefault(directory[i].email, "No Email")]]

\* the Item store_users_in_dynamodb puts for one user
PresenceItem(user, time) ==
  [PK |-> user.sub, Name |-> user.name, Email |-> user.email,
   IsOnline |-> FALSE, LastActive |-> "Never", IsTyping |-> FALSE,
   OnlineStatus |-> "Offline", CurrChatPartnerID |-> "",
   TTL |-> time + TTL_SECONDS]

\* the table user_metadata.py creates, with TTL enabled on attribute TTL
ProvisionedUserTable == [key |-> "UserID", ttl |-> "TTL", items |-> << >>]

\* what the account may hold under the name the sync writes to: nothing, or a
\* table keyed by the attribute the sync writes, with TTL enabled or not
WrittenTableChoices ==
  {<< >>} \cup
  {[t \in {DYNAMODB_TABLE} |-> [key |-> "PK", ttl |-> a, items |-> << >>]]
     : a \in {"TTL", Absent}}

SyncInit ==
  /\ directory \in Directories
  /\ \E written \in WrittenTableChoices :
       userTables = [t \in {TABLE_NAME} \cup DOMAIN written |->
                       IF t = TABLE_NAME THEN ProvisionedUserTable ELSE written[t]]
  /\ sync = [pc |-> "get_all_users", users |-> << >>, next |-> 1]
  /\ putTime = << >>
  /\ now = 0

\* cognito_users = get_all_users()
GetAllUsers ==
  /\ sync.pc = "get_all_users"
  /\ sync' = [pc |-> "store_users", users |-> get_all_users, next |-> 1]
  /\ UNCHANGED <<directory, userTables, putTime, now, queueVars, connVars>>

\* put_item accepts an Item when the table exists and the Item has its key
PutAccepted(TableName, Item) ==
  /\ TableName \in DOMAIN userTables
  /\ userTables[TableName].key \in DOMAIN Item

\* one turn of the loop of store_users_in_dynamodb: put_item answers
StoreUser ==
  /\ sync.pc = "store_users"
  /\ sync.next <= Len(sync.users)
  /\ LET Item == PresenceItem(sync.users[sync.next], now)
     IN /\ PutAccepted(DYNAMODB_TABLE, Item)
        /\ userTables' =
             [userTables EXCEPT ![DYNAMODB_TABLE].items =
                put_item(@, Item[userTables[DYNAMODB_TABLE].key], Item)]
        /\ putTime' = put_item(putTime, Item.PK, now)
  /\ sync' = [sync EXCEPT !.next = @ + 1]
  /\ UNCHANGED <<directory, now, queueVars, connVars>>

\* put_item raises (ResourceNotFoundException, ValidationException): the script ends
StoreUserRaises ==
  /\ sync.pc = "store_users"
  /\ sync.next <= Len(sync.users)
  /\ ~PutAccepted(DYNAMODB_TABLE, PresenceItem(sync.users[sync.next], now))
  /\ sync' = [sync EXCEPT !.pc = "raised"]
  /\ UNCHANGED <<directory, userTables, putTime, now, queueVars, connVars>>

\* the loop is over: print("Users successfully added!")
StoreDone ==
  /\ sync.pc = "store_users"
  /\ sync.next > Len(sync.users)
  /\ sync' = [sync EXCEPT !.pc = "done"]
  /\ UNCHANGED <<directory, userTables, putTime, now, queueVars, connVars>>

\* DynamoDB TTL: an item whose TTL attribute is in the past is deleted
TTLExpire(TableName, key) ==
  /\ TableName \in DOMAIN userTables
  /\ userTables[TableName].ttl # Absent
  /\ key \in DOMAIN userTables[TableName].items
  /\ userTables[TableName].items[key][userTables[TableName].ttl] < now
  /\ userTables' =
       [userTables EXCEPT ![TableName].items =
          [k \in DOMAIN @ \ {key} |-> @[k]]]
  /\ UNCHANGED <<directory, sync, putTime, now, queueVars, connVars>>

Tick ==
  /\ now + TickSeconds <= MaxTime
  /\ now' = now + TickSeconds
  /\ UNCHANGED <<directory, userTables, sync, putTime, queueVars, connVars>>

SyncNext ==
  \/ GetAllUsers
  \/ StoreUser
  \/ StoreUserRaises
  \/ StoreDone
  \/ \E t \in {TABLE_NAME, DYNAMODB_TABLE}, k \in 1..MaxDirUsers : TTLExpire(t, k)
  \/ Tick

(* --------------------------- specifications --------------------------- *)

\* the sync has not run and the directory is empty
SyncIdle ==
  /\ directory = << >>
  /\ userTables = [t \in {TABLE_NAME} |-> ProvisionedUserTable]
  /\ sync = [pc |-> "get_all_users", users |-> << >>, next |-> 1]
  /\ putTime = << >>
  /\ now = 0

\* the state after the modules are loaded, before the sync script has run
Init == QueueInit /\ ConnInit /\ SyncIdle

\* the same, over every user pool and account the sync may meet
InitSync == QueueInit /\ ConnInit /\ SyncInit

QueueSpec == Init /\ [][QueueNext]_vars

ConnSpec == Init /\ [][ConnNext]_vars

SyncSpec == InitSync /\ [][SyncNext]_vars

(* ------------------------------- claims ------------------------------- *)

\* the messageIds of a fetch result
Ids(Items) == {Items[i].messageId : i \in DOMAIN Items}

\* the stored messages of a receiver that are not delivered
Undelivered(receiverId) ==
  {id \in DOMAIN queueTable :
     queueTable[id].receiverId = receiverId /\ ~queueTable[id].delivered}

\* C1: no message loss: a message whose enqueue the sender saw succeed is stored
\* and is either marked delivered or returned by fetch_undelivered_messages for
\* its receiverId.
C1_NoMessageLoss ==
  \A id \in accepted :
    /\ id \in DOMAIN queueTable
    /\ \/ queueTable[id].delivered
       \/ id \in Ids(fetch_undelivered_messages(queueTable[id].receiverId))

\* C2: every add_message_to_queue whose put_item answered stored exactly one new
\* item, with delivered = FALSE and the fields it was called with, under a
\* messageId the table did not hold, and changed no item stored before.
C2_EnqueueStoresOneNewMessage ==
  [][\A p \in Procs :
       (call[p].pc = "put_item" /\ call'[p].pc = "returned"
          /\ call'[p].type = "PutItemOutput") =>
         LET id == call[p].item.messageId
         IN /\ id \notin DOMAIN queueTable
            /\ DOMAIN queueTable' = DOMAIN queueTable \cup {id}
            /\ queueTable'[id] = call[p].item
            /\ queueTable'[id].messageId = id
            /\ queueTable'[id].delivered = FALSE
            /\ \A m \in DOMAIN queueTable : queueTable'[m] = queueTable[m]]_vars

\* C2 witness: two messages are stored whose enqueues overlapped (neither had
\* returned when the other began), both callers holding put_item's response.
C2_Witness ==
  /\ \A p \in Procs : call[p].pc = "returned" /\ call[p].type = "PutItemOutput"
  /\ \E m1, m2 \in DOMAIN queueTable :
       /\ m1 # m2
       /\ <<m1, m2>> \notin before
       /\ <<m2, m1>> \notin before
       /\ \E p, q \in Procs : call[p].item.messageId = m1 /\ call[q].item.messageId = m2

\* C3: a call during which the store failed ends in an error raised to its
\* caller, never in a normal return.
C3_StorageFailureSurfaced ==
  /\ \A p \in Procs : call[p].storeFailed => call[p].outcome = "raise"
  /\ lastFetch.storeFailed => lastFetch.outcome = "raise"

\* C4: fetch_undelivered_messages(receiverId) returns exactly the stored messages
\* of that receiver whose delivered flag is false.
C4_FetchReturnsExactlyUndelivered ==
  \A r \in Receivers : Ids(fetch_undelivered_messages(r)) = Undelivered(r)

\* C5: FIFO per pair: of two messages of the same sender and receiver, the first
\* enqueued wholly before the second, a fetch result holding both lists the
\* first before the second.
C5_FifoPerPair ==
  \A r \in Receivers :
    LET Items == fetch_undelivered_messages(r)
    IN \A i, j \in DOMAIN Items :
         (/\ <<Items[i].messageId, Items[j].messageId>> \in before
          /\ Items[i].senderId = Items[j].senderId) => i < j

\* C6: add_message_to_queue returns the messageId it stored the message under,
\* and a fetch for the receiver then holds that message, undelivered, with the
\* submitted body.
C6_EnqueueReturnsStoredId ==
  \A p \in Procs :
    (call[p].pc = "returned" /\ ~call[p].storeFailed) =>
      /\ call[p].type = "messageId"
      /\ \/ queueTable[call[p].item.messageId].delivered
         \/ \E i \in DOMAIN fetch_undelivered_messages(call[p].item.receiverId) :
              LET m == fetch_undelivered_messages(call[p].item.receiverId)[i]
              IN /\ m.messageId = call[p].item.messageId
                 /\ m.message = call[p].item.message
                 /\ m.delivered = FALSE

\* C7: once a message is marked delivered it stays stored and delivered through
\* every later step, and no fetch returns it.
C7_DeliveredIsMonotonic ==
  /\ [][\A id \in DOMAIN queueTable :
          queueTable[id].delivered =>
            id \in DOMAIN queueTable' /\ queueTable'[id].delivered]_vars
  /\ [](\A r \in Receivers :
          \A id \in Ids(fetch_undelivered_messages(r)) : ~queueTable[id].delivered)

\* C7 witness: a message is delivered, a later enqueue was accepted, and the
\* latest call was a fetch for the message's receiver that returned its list.
C7_Witness ==
  \E id \in DOMAIN queueTable :
    /\ queueTable[id].delivered
    /\ \E m \in accepted : <<id, m>> \in before
    /\ lastFetch.outcome = "return"
    /\ lastFetch.type = "list"
    /\ lastFetch.receiverId = queueTable[id].receiverId

StoredRecords(sub) ==
  IF DYNAMODB_TABLE \in DOMAIN userTables
       /\ sub \in DOMAIN userTables[DYNAMODB_TABLE].items
  THEN {userTables[DYNAMODB_TABLE].items[sub]}
  ELSE {}

C10_SyncSeedsWholeDirectory ==
  sync.pc = "done" =>
    \A i \in DOMAIN directory :
      LET sub == directory[i].sub
          table == userTables[TABLE_NAME]
      IN /\ sub \in DOMAIN table.items
         /\ table.key \in DOMAIN table.items[sub]
         /\ table.items[sub][table.key] = sub
         /\ table.items[sub].IsOnline = FALSE
         /\ table.items[sub].IsTyping = FALSE
         /\ table.items[sub].CurrChatPartnerID = ""
         /\ sub \in DOMAIN putTime
         /\ table.items[sub][table.ttl] = putTime[sub] + TTL_SECONDS

====
